---------------------------- MODULE Spec2Model ----------------------------
(***************************************************************************)
(* The loan workflow of catalog/views.py: the librarian views              *)
(* renew_book_librarian and return_book_librarian acting on the            *)
(* BookInstance table, and the index view that counts available copies.    *)
(*                                                                         *)
(* Spec      every request runs its view from start to end (one worker).   *)
(* SpecConc  two workers; a view that writes reads the row                 *)
(*           (get_object_or_404) in one step and writes it back            *)
(*           (book_instance.save()) in a later one, as the views do: they  *)
(*           open no transaction and take no row lock.                     *)
(***************************************************************************)
EXTENDS Integers, Sequences, FiniteSets, TLC

VARIABLES store, session, resp, inflight, store0

vars == <<store, session, resp, inflight, store0>>

-----------------------------------------------------------------------------
(* Bounds of the model *)

\* days enumerated on each side of the two ends of the renewal window
Slack == 1
\* visits counted in the session before the index view is no longer requested
MaxVisits == 2

-----------------------------------------------------------------------------
(* Values *)

\* Python's None, and a present value of a nullable field
None == <<>>
Some(x) == <<x>>

\* datetime.date.today(), as a day number
Today == 100
DaysPerWeek == 7
\* timedelta(weeks=3): the default proposal of the renewal form
DefaultRenewalWeeks == 3
\* the renewal window of RenewBookModelForm (catalog/forms.py)
RenewalWindowWeeks == 4

\* primary keys of the rows of the BookInstance table, and a key of no row
Pks == {"i1", "i2"}
PkInputs == Pks \cup {"absent"}

\* BookInstance.LOAN_STATUS: Maintenance, On loan, Available, Reserved
LOAN_STATUS == {"m", "o", "a", "r"}

\* the logged-in users, and everyone who can send a request
Users == {"librarian", "member"}
Visitors == Users \cup {"anonymous"}
Borrowers == {"member"}
Methods == {"GET", "POST"}
Workers == {1, 2}

\* the dates a renewal form is posted with: around today, and from the last
\* day of the renewal window on
DateInputs ==
    ((Today - Slack) .. (Today + Slack))
    \cup ((Today + RenewalWindowWeeks * DaysPerWeek)
            .. (Today + RenewalWindowWeeks * DaysPerWeek + Slack))

\* the rows the table starts with: a row on loan has a due date and a
\* borrower, no other row has a due date, and an available row has neither
InitRows ==
    { r \in [status : LOAN_STATUS,
             due_back : {None, Some(Today)},
             borrower : {None} \cup {Some(b) : b \in Borrowers}] :
        /\ (r.status = "o") <=> (r.due_back # None)
        /\ (r.status = "o") => (r.borrower # None)
        /\ (r.status = "a") => (r.borrower = None) }

\* the requests a client can send to the two librarian views
RenewRequests ==
    [user : Users, method : {"GET"}, pk : PkInputs, POST : {None}]
    \cup [user : Users, method : {"POST"}, pk : PkInputs,
          POST : {Some(d) : d \in DateInputs}]
ReturnRequests ==
    [user : Users, method : Methods, pk : PkInputs, POST : {None}]


-----------------------------------------------------------------------------
(* Collaborators of the views: authentication, the forms, the table *)

\* the permissions each user holds (django.contrib.auth)
UserPermissions ==
    [u \in Visitors |->
        IF u = "librarian" THEN {"catalog.can_mark_returned"} ELSE {}]

is_authenticated(user) == user # "anonymous"

has_perm(user, perm) == perm \in UserPermissions[user]

\* @login_required: the view runs for a logged-in user only
login_required(request) == is_authenticated(request.user)

\* a decorator that asks only for a logged-in user
permission_required_login_only(perm, request) == is_authenticated(request.user)

\* @permission_required(perm): the view runs only for a user holding perm
permission_required(perm, request) == has_perm(request.user, perm)

\* RenewBookModelForm.clean_due_back: the errors of a proposed due date
clean_due_back(data) ==
    IF data <= Today
    THEN {"date in past"}
    ELSE IF data > Today + RenewalWindowWeeks * DaysPerWeek
         THEN {"date too far in future"}
         ELSE {}

\* RenewBookModelForm(request.POST): the form bound to the posted date
RenewBookModelForm(POST) ==
    [is_bound |-> TRUE,
     initial |-> None,
     errors |-> IF POST = None THEN {"required"} ELSE clean_due_back(POST[1]),
     cleaned_data |-> POST]

\* RenewBookModelForm(initial={"due_back": d}): the unbound form of a GET
RenewBookModelFormInitial(d) ==
    [is_bound |-> FALSE, initial |-> Some(d), errors |-> {}, cleaned_data |-> None]

\* ReturnBookModelForm(request.POST): no field of it is validated
ReturnBookModelForm(POST) ==
    [is_bound |-> TRUE, initial |-> None, errors |-> {}, cleaned_data |-> None]

ReturnBookModelFormUnbound ==
    [is_bound |-> FALSE, initial |-> None, errors |-> {}, cleaned_data |-> None]

\* form.is_valid()
is_valid(form) == form.is_bound /\ form.errors = {}

\* book_instance.save(): the row of the instance's key is written, all
\* columns of it (an UPDATE; an INSERT when the table has no such row)
Save(db, pk, book_instance) ==
    [k \in DOMAIN db \cup {pk} |-> IF k = pk THEN book_instance ELSE db[k]]

\* a lookup that makes the row it does not find (get_or_create)
get_or_create(db, pk) ==
    IF pk \in DOMAIN db
    THEN Some(db[pk])
    ELSE Some([status |-> "m", due_back |-> None, borrower |-> None])

\* get_object_or_404(BookInstance, pk=pk): the row, or None for Http404
get_object_or_404(db, pk) ==
    IF pk \in DOMAIN db THEN Some(db[pk]) ELSE None

\* BookInstance.objects.filter(status__exact=status)
FilterStatus(db, status) == {pk \in DOMAIN db : db[pk].status = status}

\* QuerySet.count(): the rows of a query counted one by one
RECURSIVE Count(_)
Count(rows) ==
    IF rows = {} THEN 0
    ELSE LET row == CHOOSE r \in rows : TRUE IN 1 + Count(rows \ {row})

-----------------------------------------------------------------------------
(* The views, as functions from the table and the request to what the view *)
(* does: its response, and the row it saves (if it saves one).             *)

\* the redirect to the login page of a request the decorator turns away
Unauthorized == [save |-> FALSE, book_instance |-> None,
                 outcome |-> "Unauthorized", context |-> None]

\* Http404 of get_object_or_404
NotFound == [save |-> FALSE, book_instance |-> None,
             outcome |-> "NotFound", context |-> None]

\* the row saved and the redirect to "all-borrowed"
Saved(book_instance) ==
    [save |-> TRUE, book_instance |-> Some(book_instance),
     outcome |-> "Redirect", context |-> None]

\* a page rendered with the form and the instance, nothing saved
Rendered(outcome, form, book_instance) ==
    [save |-> FALSE, book_instance |-> Some(book_instance),
     outcome |-> outcome, context |-> Some(form)]

\* a renewal that writes the posted date without asking the form
renew_post_unvalidated(book_instance, form) ==
    Saved([book_instance EXCEPT !.due_back = form.cleaned_data])

\* a renewal that saves the posted date before it asks the form
renew_post_saves_invalid(book_instance, form) ==
    IF is_valid(form)
    THEN Saved([book_instance EXCEPT !.due_back = form.cleaned_data])
    ELSE [save |-> TRUE,
          book_instance |-> Some([book_instance EXCEPT !.due_back = form.cleaned_data]),
          outcome |-> "ValidationError", context |-> Some(form)]

\* a renewal that also marks the instance on loan
renew_post_marks_on_loan(book_instance, form) ==
    IF is_valid(form)
    THEN Saved([book_instance EXCEPT !.due_back = form.cleaned_data, !.status = "o"])
    ELSE Rendered("ValidationError", form, book_instance)

\* renew_book_librarian, the POST branch once the form is bound
renew_post(book_instance, form) ==
    IF is_valid(form)
    THEN Saved([book_instance EXCEPT !.due_back = form.cleaned_data])
    ELSE Rendered("ValidationError", form, book_instance)

\* the body of renew_book_librarian
renew_view(db, request) ==
    IF get_object_or_404(db, request.pk) = None
    THEN NotFound
    ELSE
      LET book_instance == get_object_or_404(db, request.pk)[1] IN
      IF request.method = "POST"
      THEN renew_post(book_instance, RenewBookModelForm(request.POST))
      ELSE
        LET proposed_renewal_date == Today + DefaultRenewalWeeks * DaysPerWeek IN
        Rendered("Form", RenewBookModelFormInitial(proposed_renewal_date),
                 book_instance)

\* a return that resets only an instance that is on loan
return_post_if_on_loan(book_instance, form) ==
    IF is_valid(form) /\ book_instance.status = "o"
    THEN Saved([book_instance EXCEPT !.due_back = None,
                                     !.borrower = None,
                                     !.status = "a"])
    ELSE [save |-> FALSE, book_instance |-> Some(book_instance),
          outcome |-> "Redirect", context |-> None]

\* a return that writes the wrong status code
return_post_to_maintenance(book_instance, form) ==
    IF is_valid(form)
    THEN Saved([book_instance EXCEPT !.due_back = None,
                                     !.borrower = None,
                                     !.status = "m"])
    ELSE [save |-> FALSE, book_instance |-> Some(book_instance),
          outcome |-> "Redirect", context |-> None]

\* return_book_librarian, the POST branch once the form is bound: the
\* redirect follows whether or not the form was valid
return_post(book_instance, form) ==
    IF is_valid(form)
    THEN Saved([book_instance EXCEPT !.due_back = None,
                                     !.borrower = None,
                                     !.status = "a"])
    ELSE [save |-> FALSE, book_instance |-> Some(book_instance),
          outcome |-> "Redirect", context |-> None]

\* the body of return_book_librarian
return_view(db, request) ==
    IF get_object_or_404(db, request.pk) = None
    THEN NotFound
    ELSE
      LET book_instance == get_object_or_404(db, request.pk)[1] IN
      IF request.method = "POST"
      THEN return_post(book_instance, ReturnBookModelForm(request.POST))
      ELSE Rendered("Form", ReturnBookModelFormUnbound, book_instance)

\* @permission_required("catalog.can_mark_returned") def renew_book_librarian
renew_book_librarian(db, request) ==
    IF permission_required("catalog.can_mark_returned", request)
    THEN renew_view(db, request)
    ELSE Unauthorized

\* @permission_required("catalog.can_mark_returned") def return_book_librarian
return_book_librarian(db, request) ==
    IF permission_required("catalog.can_mark_returned", request)
    THEN return_view(db, request)
    ELSE Unauthorized

\* a count of the copies on loan
num_instances_on_loan(db) == Count(FilterStatus(db, "o"))

\* index: the counts of the landing page
num_instances_available(db) == Count(FilterStatus(db, "a"))

num_instances(db) == Count(DOMAIN db)

\* the table after a view has run from start to end
Served(db, request, result) ==
    IF result.save THEN Save(db, request.pk, result.book_instance[1]) ELSE db

\* the response as the client sees it
Response(view, request, result) ==
    [view |-> view, request |-> request,
     outcome |-> result.outcome, context |-> result.context]

-----------------------------------------------------------------------------
(* State *)

NoResponse == [view |-> "none", request |-> None, outcome |-> "none", context |-> None]

Idle == [pc |-> "idle", view |-> "none", request |-> None,
         book_instance |-> None, outcome |-> "none"]

\* store     the BookInstance table: key -> row
\* session   request.session["num_visits"]
\* resp      the response to the last request served (Spec)
\* inflight  what each worker is doing (SpecConc)
\* store0    the table before the workers began (SpecConc)
Init ==
    /\ store \in [Pks -> InitRows]
    /\ session = 0
    /\ resp = NoResponse
    /\ inflight = [w \in Workers |-> Idle]
    /\ store0 = None

InitConc ==
    /\ store \in [Pks -> InitRows]
    /\ session = 0
    /\ resp = NoResponse
    /\ inflight = [w \in Workers |-> Idle]
    /\ store0 = Some(store)

-----------------------------------------------------------------------------
(* Spec: one request at a time, each view run from start to end *)

Index(request) ==
    /\ session < MaxVisits
    /\ IF login_required(request)
       THEN LET num_visits == session + 1 IN
            /\ session' = num_visits
            /\ resp' = [view |-> "index", request |-> request, outcome |-> "OK",
                        context |-> Some([num_instances |-> num_instances(store),
                                          num_instances_available |->
                                              num_instances_available(store),
                                          num_visits |-> num_visits])]
       ELSE /\ session' = session
            /\ resp' = [view |-> "index", request |-> request,
                        outcome |-> "Unauthorized", context |-> None]
    /\ UNCHANGED <<store, inflight, store0>>

RenewBookLibrarian(request) ==
    LET result == renew_book_librarian(store, request) IN
    /\ store' = Served(store, request, result)
    /\ resp' = Response("renew", request, result)
    /\ UNCHANGED <<session, inflight, store0>>

ReturnBookLibrarian(request) ==
    LET result == return_book_librarian(store, request) IN
    /\ store' = Served(store, request, result)
    /\ resp' = Response("return", request, result)
    /\ UNCHANGED <<session, inflight, store0>>

Next ==
    \/ \E u \in Visitors : Index([user |-> u, method |-> "GET"])
    \/ \E request \in RenewRequests : RenewBookLibrarian(request)
    \/ \E request \in ReturnRequests : ReturnBookLibrarian(request)

Spec == Init /\ [][Next]_vars

-----------------------------------------------------------------------------
(* SpecConc: two workers, one request each.  A view that saves reads the   *)
(* row when the request is received and writes it back in a later step.    *)

Receive(w, view, request, result) ==
    /\ inflight[w].pc = "idle"
    /\ inflight' = [inflight EXCEPT ![w] =
           [pc |-> IF result.save THEN "save" ELSE "done",
            view |-> view,
            request |-> request,
            book_instance |-> result.book_instance,
            outcome |-> IF result.save THEN "none" ELSE result.outcome]]
    /\ UNCHANGED <<store, session, resp, store0>>

RenewReceive(w, request) ==
    Receive(w, "renew", request, renew_book_librarian(store, request))

ReturnReceive(w, request) ==
    Receive(w, "return", request, return_book_librarian(store, request))

\* book_instance.save() and the redirect that follows it
SaveAndRedirect(w) ==
    /\ inflight[w].pc = "save"
    /\ store' = Save(store, inflight[w].request.pk, inflight[w].book_instance[1])
    /\ inflight' = [inflight EXCEPT ![w].pc = "done", ![w].outcome = "Redirect"]
    /\ UNCHANGED <<session, resp, store0>>

NextConc ==
    \/ \E w \in Workers, request \in RenewRequests : RenewReceive(w, request)
    \/ \E w \in Workers, request \in ReturnRequests : ReturnReceive(w, request)
    \/ \E w \in Workers : SaveAndRedirect(w)

SpecConc == InitConc /\ [][NextConc]_vars

-----------------------------------------------------------------------------
(* Properties *)

CanMarkReturned(user) == has_perm(user, "catalog.can_mark_returned")

\* the last request was a POST to the named librarian view by a librarian
Posted(r, view) ==
    /\ r.view = view
    /\ r.request.method = "POST"
    /\ CanMarkReturned(r.request.user)

\* C1: in every reachable state every instance has due_back and borrower both
\* set exactly when it is on loan, and an available instance has neither.
LoanFieldsInvariant ==
    \A pk \in DOMAIN store :
        /\ (store[pk].status = "o")
              <=> (store[pk].due_back # None /\ store[pk].borrower # None)
        /\ (store[pk].status = "a")
              => (store[pk].due_back = None /\ store[pk].borrower = None)

\* C2: a renewal posted for an instance on loan is accepted exactly when the
\* proposed date d satisfies today < d <= today + 28 days, and is otherwise
\* answered with a validation error.
RenewalWindow ==
    (/\ Posted(resp, "renew")
     /\ resp.request.pk \in DOMAIN store
     /\ store[resp.request.pk].status = "o")
    => LET d == resp.request.POST[1] IN
       /\ (resp.outcome = "Redirect") <=> (Today < d /\ d <= Today + 28)
       /\ (resp.outcome # "Redirect") => (resp.outcome = "ValidationError")

\* a renewal to the last day of the window was accepted for a loaned instance
RenewalWindowWitness ==
    /\ Posted(resp, "renew")
    /\ resp.outcome = "Redirect"
    /\ resp.request.POST = Some(Today + 28)
    /\ resp.request.pk \in DOMAIN store
    /\ store[resp.request.pk].status = "o"
    /\ store[resp.request.pk].due_back = Some(Today + 28)

\* C4: a successful renewal sets due_back of its instance to the posted date
\* and changes nothing else: not the status, not the borrower, no other row.
RenewFrame ==
    [][ (resp'.view = "renew" /\ resp'.outcome = "Redirect")
        => LET pk == resp'.request.pk IN
           /\ pk \in DOMAIN store
           /\ store' = [store EXCEPT ![pk].due_back = resp'.request.POST] ]_vars

\* a loaned instance was renewed to a new date, beside another instance
RenewFrameWitness ==
    /\ Posted(resp, "renew")
    /\ resp.outcome = "Redirect"
    /\ resp.request.pk \in DOMAIN store
    /\ store[resp.request.pk] =
         [status |-> "o", due_back |-> Some(Today + 1), borrower |-> Some("member")]
    /\ \E other \in DOMAIN store \ {resp.request.pk} : store[other].status = "o"

\* C5: a renewal whose date is outside the window is answered with a
\* validation error, and the table is left as it was.
RenewRejectedUnchanged ==
    [][ (/\ Posted(resp', "renew")
         /\ resp'.request.pk \in DOMAIN store
         /\ ~ (Today < resp'.request.POST[1] /\ resp'.request.POST[1] <= Today + 28))
        => /\ resp'.outcome = "ValidationError"
           /\ resp'.context[1].errors # {}
           /\ store' = store ]_vars

\* a renewal to a date in the past was rejected
RenewRejectedWitness ==
    /\ Posted(resp, "renew")
    /\ resp.outcome = "ValidationError"
    /\ resp.request.POST[1] < Today
    /\ resp.context[1].errors = {"date in past"}
    /\ resp.request.pk \in DOMAIN store
    /\ store[resp.request.pk].status = "o"

\* C6: a return posted for an existing instance succeeds whatever the status
\* of the instance, leaves it available with no due date and no borrower, and
\* a second return of the same instance succeeds and changes nothing.
ReturnUnconditional ==
    [][ (Posted(resp', "return") /\ resp'.request.pk \in DOMAIN store)
        => LET pk == resp'.request.pk
               again == return_book_librarian(store', resp'.request)
           IN
           /\ resp'.outcome = "Redirect"
           /\ store' = [store EXCEPT ![pk].status = "a",
                                     ![pk].due_back = None,
                                     ![pk].borrower = None]
           /\ again.outcome = "Redirect"
           /\ Served(store', resp'.request, again) = store' ]_vars

\* an instance was returned while the other instance is not available
ReturnUnconditionalWitness ==
    /\ Posted(resp, "return")
    /\ resp.outcome = "Redirect"
    /\ resp.request.pk \in DOMAIN store
    /\ store[resp.request.pk] =
         [status |-> "a", due_back |-> None, borrower |-> None]
    /\ \E other \in DOMAIN store \ {resp.request.pk} : store[other].status = "m"

\* C8: a renewal or return of a key the table does not hold is answered with
\* NotFound, whatever was posted, and no row is made or changed.
MissingKeyNotFound ==
    [][ (/\ resp'.view \in {"renew", "return"}
         /\ CanMarkReturned(resp'.request.user)
         /\ resp'.request.pk \notin DOMAIN store)
        => /\ resp'.outcome = "NotFound"
           /\ store' = store ]_vars

\* a renewal of a missing key with a date in the past was answered NotFound
MissingKeyWitness ==
    /\ Posted(resp, "renew")
    /\ resp.request.pk \notin DOMAIN store
    /\ resp.request.POST[1] < Today
    /\ resp.outcome = "NotFound"

\* C9: the count of available copies the index view shows is the number of
\* rows whose status is Available, and the view changes no row.
CountAvailableExact ==
    [][ (resp'.view = "index" /\ resp'.outcome = "OK")
        => /\ store' = store
           /\ resp'.context[1].num_instances_available =
                Cardinality({pk \in DOMAIN store' : store'[pk].status = "a"}) ]_vars

\* the index was shown after a renewal and with one copy of two available
CountAvailableWitness ==
    /\ resp.view = "index"
    /\ resp.outcome = "OK"
    /\ resp.context[1].num_instances_available = 1
    /\ resp.context[1].num_instances = 2
    /\ \E pk \in DOMAIN store : store[pk].due_back = Some(Today + 1)

-----------------------------------------------------------------------------
(* Properties of concurrent requests (SpecConc) *)

\* what a view does with a request, by the name of the view
ViewResult(view, db, request) ==
    IF view = "renew"
    THEN renew_book_librarian(db, request)
    ELSE return_book_librarian(db, request)

\* the table after worker w's request has run from start to end on db
After(w, db) ==
    Served(db, inflight[w].request,
           ViewResult(inflight[w].view, db, inflight[w].request))

AllDone == \A w \in Workers : inflight[w].pc = "done"

\* both requests are for the same instance, and one of them is a renewal
SameKeyWithRenew ==
    /\ inflight[1].request.pk = inflight[2].request.pk
    /\ inflight[1].request.pk \in DOMAIN store
    /\ \E w \in Workers : inflight[w].view = "renew"

\* C3: once two requests for the same instance (Renew/Renew or Renew/Return)
\* are both answered, the table is what running the two requests one after
\* the other, in one order or the other, leaves.
SerialOutcome ==
    (AllDone /\ SameKeyWithRenew)
    => \/ store = After(2, After(1, store0[1]))
       \/ store = After(1, After(2, store0[1]))

\* C7: a request of a user without the can_mark_returned permission is
\* answered Unauthorized at once and never reaches a save, whatever the other
\* worker is doing; only a request of a permitted user changes the table.
UnauthorizedFailsClosed ==
    [][ /\ \A w \in Workers :
             (/\ inflight[w].pc = "idle"
              /\ inflight'[w].pc # "idle"
              /\ ~ CanMarkReturned(inflight'[w].request.user))
             => /\ inflight'[w].pc = "done"
                /\ inflight'[w].outcome = "Unauthorized"
                /\ store' = store
        /\ (store' # store)
             => \E w \in Workers :
                    /\ inflight[w].pc = "save"
                    /\ inflight'[w].pc = "done"
                    /\ CanMarkReturned(inflight[w].request.user) ]_vars

\* a member's POST to return an instance was turned away while a librarian's
\* renewal of the same instance was between its read and its save, and the
\* instance is still on loan
UnauthorizedWitness ==
    \E w, v \in Workers :
        /\ inflight[w].pc = "done"
        /\ inflight[w].view = "return"
        /\ inflight[w].request.method = "POST"
        /\ inflight[w].request.user = "member"
        /\ inflight[w].outcome = "Unauthorized"
        /\ inflight[v].pc = "save"
        /\ inflight[v].request.pk = inflight[w].request.pk
        /\ inflight[w].request.pk \in DOMAIN store
        /\ store[inflight[w].request.pk].status = "o"

=============================================================================
